---- MODULE Spec2Model ----
(***************************************************************************)
(* Transport drivers of dmx-rdm-rs-drivers.                                *)
(*                                                                         *)
(*   SpecCodec : EnttecMessage::serialize / EnttecMessage::deserialize,    *)
(*               applied to bounded sets of messages and wire buffers.     *)
(*   Spec      : EnttecProDriver (dmx-rdm-enttec-pro), one step per        *)
(*               serial-port call, reading a finite byte stream queued by  *)
(*               the widget.                                               *)
(*   SpecLive  : the same driver steps with a widget that keeps sending,   *)
(*               under weak fairness of the driver.                        *)
(*   SpecFtdi  : FtdiDriver (dmx-rdm-ftdi): the read path with a discrete  *)
(*               microsecond clock, and the write path one serial-port     *)
(*               call per step.                                            *)
(*   SpecRp2040: Rp2040Driver (dmx-rdm-rp2040): reads polling a line of    *)
(*               data bytes and faults, writes with break and MAB timed    *)
(*               by the countdown.                                         *)
(***************************************************************************)
EXTENDS Integers, Sequences, FiniteSets, TLC

VARIABLES
    \* ---- codec harness
    c_pc,        \* "msg" | "wire" | "buf" | "back" | "parsed" | "panic"
    c_msg,       \* the EnttecMessage handed to serialize
    c_wire,      \* the byte buffer handed to deserialize
    c_back,      \* the Option<EnttecMessage> deserialize returned
    c_again,     \* what serialize gives for the message deserialize returned
    \* ---- EnttecProDriver
    rx,             \* bytes queued on the serial port, widget -> host
    tx,             \* bytes written to the serial port, host -> widget
    op,             \* the public operation in progress
    pc,             \* position inside the operation
    receive_buffer, \* read_package's receive_buffer, the part filled so far
    data_size,      \* read_package's data_size
    result,         \* what the operation returned (or "panic")
    arg,            \* the operation's argument
    recv_package,   \* what the last read_package call returned to the label loop
    parsed,         \* what the dmx_rdm parser returned: "none" (not called) | "Ok" | "Err"
    wrote,          \* the last write: bytes offered to the port, bytes it accepted
    garbage,        \* input: the bytes queued before the first frame
    frames,         \* input: the well-formed messages queued after the garbage
    cut,            \* input: how many bytes at the end of the stream never arrive
    calls,          \* what the earlier read_package calls of the caller returned, in order
    \* ---- FtdiDriver
    f_pc,           \* "idle" | "wait_break" | "no_break" | "done"
    f_op,           \* the trait method the caller invoked
    latency_timer_us,
    f_timeout_us,   \* timeout_us argument of the method running now
    f_requested,    \* timeout_us argument of the method the caller invoked
    actual_timeout, \* read_frames' actual_timeout / read_frames_no_break's actual_timeout_us
    f_now,          \* SystemTime::now(), in microseconds
    f_start,        \* start_time / slot_start
    f_head,         \* read_frames_no_break's head
    f_buffer,       \* the caller's buffer, the part filled so far
    f_size,         \* buffer.len()
    f_line,         \* bytes the line will still deliver
    f_result,
    f_line0,        \* input: the bytes the line delivers over the whole call
    f_bytes_read,   \* bytes_read of the last serial_port.read (-1: none yet)
    f_returned_by,  \* the method whose return statement produced f_result
    f_payload,      \* the buffer handed to a write
    f_tx_queue,     \* status().ammount_in_tx_queue
    f_break,        \* the line is held in break
    f_break0,       \* input: the break state when the call was made
    f_log,          \* the serial-port calls made by a write, in order
    f_written,      \* payload bytes the port accepted
    \* ---- Rp2040Driver
    r_pc,           \* "idle" | "wait_break" | "no_break" | "brk" | "mab" | "write" | "busy" | "done"
    r_op,           \* the trait method the caller invoked
    r_timeout_us,   \* its timeout_us argument
    r_size,         \* buffer.len() of a read
    r_buffer,       \* the caller's read buffer
    r_head,         \* read_frames_no_break's head
    countdown,      \* self.countdown: running, expired, the duration it was started with
    r_line,         \* what the receive line will still deliver: data bytes and faults
    r_line0,        \* input: what the line delivers over the whole call
    r_last,         \* what the last uart.read_raw returned
    r_result,
    r_detected,     \* position in r_line0 of the break that ended read_frames' wait (0: none)
    r_sync,         \* position in r_line0 of the last break seen with nothing collected
    r_payload,      \* the buffer handed to a write
    r_tx_break,     \* the transmit line is held in break
    r_sent,         \* the payload bytes handed to the UART so far
    r_busy          \* uart.uart_is_busy()

cvars == <<c_pc, c_msg, c_wire, c_back, c_again>>
evars == <<rx, tx, op, pc, receive_buffer, data_size, result, arg, recv_package, parsed,
           wrote, garbage, frames, cut, calls>>
fvars == <<f_pc, f_op, latency_timer_us, f_timeout_us, f_requested, actual_timeout,
           f_now, f_start, f_head, f_buffer, f_size, f_line, f_result, f_line0,
           f_bytes_read, f_returned_by, f_payload, f_tx_queue, f_break, f_break0, f_log,
           f_written>>
rvars == <<r_pc, r_op, r_timeout_us, r_size, r_buffer, r_head, countdown, r_line, r_line0,
           r_last, r_result, r_detected, r_sync, r_payload, r_tx_break, r_sent, r_busy>>
vars == <<cvars, evars, fvars, rvars>>

(***************************************************************************)
(* Constants of dmx-rdm-enttec-pro.                                        *)
(***************************************************************************)
ENTTEC_MANUFACTURER_ID == 17742
START_OF_MESSAGE_DELIMITER == 126
END_OF_MESSAGE_DELIMITER == 231
MAX_DATA_LENGTH == 600
MIN_PACKAGE_SIZE == 5
RECEIVED_DMX_PACKET == 5
SEND_DMX_PACKET_REQUEST == 6
SEND_RDM_PACKET_REQUEST == 7
GET_WIDGET_SERIAL_NUMBER == 10
SEND_RDM_DISCOVERY_REQUEST == 11
DMX_NULL_START == 0
DISC_UNIQUE_BRANCH == 1

Byte == 0..255

\* What an operation returned: Result::Ok, Result::Err, or a panic that unwinds.
Ok(kind, val) == [tag |-> "Ok", kind |-> kind, val |-> val]
Err(kind) == [tag |-> "Err", kind |-> kind, val |-> <<>>]
Panic(kind) == [tag |-> "panic", kind |-> kind, val |-> <<>>]
NoResult == [tag |-> "none", kind |-> "", val |-> <<>>]

NoWrite == [offered |-> 0, accepted |-> 0]

(***************************************************************************)
(* Bounds of the model.                                                    *)
(***************************************************************************)
MaxPayload == 2     \* short payloads handed to serialize: every sequence up to this length
MaxBufLen == 6      \* raw buffers handed to deserialize: every sequence up to this length

PayloadBytes == {0, 126, 231}
BufBytes == {0, 1, 126, 231}
LongLens == {255, 256, 599, 600, 601}

RECURSIVE SeqsUpTo(_, _)
SeqsUpTo(S, n) ==
    IF n = 0 THEN {<<>>}
    ELSE LET shorter == SeqsUpTo(S, n - 1)
         IN  shorter \cup {Append(s, b) : s \in {t \in shorter : Len(t) = n - 1}, b \in S}

\* A payload of n bytes whose content varies with the position.
Fill(n) == [i \in 1..n |-> (i * 37 + 11) % 256]

(***************************************************************************)
(* EnttecMessage                                                           *)
(***************************************************************************)
EnttecMessage(label, data) == [label |-> label, data |-> data]

\* u16::to_le_bytes of (n as u16)
to_le_bytes_u16(n) == <<(n % 65536) % 256, (n % 65536) \div 256>>

\* u16::from_le_bytes
from_le_bytes_u16(lo, hi) == lo + 256 * hi

\* the assert! of serialize
serialize_assert(m) == Len(m.data) <= MAX_DATA_LENGTH

serialize_dropping_high_byte(m) ==
    <<START_OF_MESSAGE_DELIMITER, m.label, Len(m.data) % 256, 0>>
        \o m.data \o <<END_OF_MESSAGE_DELIMITER>>

serialize(m) ==
    <<START_OF_MESSAGE_DELIMITER, m.label>>
        \o to_le_bytes_u16(Len(m.data))
        \o m.data
        \o <<END_OF_MESSAGE_DELIMITER>>

None == [some |-> FALSE, label |-> 0, data |-> <<>>]
Some(m) == [some |-> TRUE, label |-> m.label, data |-> m.data]

deserialize_without_max_check(data) ==
    IF Len(data) < MIN_PACKAGE_SIZE THEN None
    ELSE IF data[1] # START_OF_MESSAGE_DELIMITER \/ data[Len(data)] # END_OF_MESSAGE_DELIMITER
    THEN None
    ELSE LET data_length == from_le_bytes_u16(data[3], data[4])
         IN  IF Len(data) # MIN_PACKAGE_SIZE + data_length THEN None
             ELSE Some(EnttecMessage(data[2], SubSeq(data, 5, data_length + 4)))

deserialize_ignoring_end_delimiter(data) ==
    IF Len(data) < MIN_PACKAGE_SIZE THEN None
    ELSE IF data[1] # START_OF_MESSAGE_DELIMITER THEN None
    ELSE LET data_length == from_le_bytes_u16(data[3], data[4])
         IN  IF data_length > MAX_DATA_LENGTH \/ Len(data) # MIN_PACKAGE_SIZE + data_length
             THEN None
             ELSE Some(EnttecMessage(data[2], SubSeq(data, 5, data_length + 4)))

deserialize(data) ==
    IF Len(data) < MIN_PACKAGE_SIZE THEN None
    ELSE IF data[1] # START_OF_MESSAGE_DELIMITER \/ data[Len(data)] # END_OF_MESSAGE_DELIMITER
    THEN None
    ELSE LET label == data[2]
             data_length == from_le_bytes_u16(data[3], data[4])
         IN  IF data_length > MAX_DATA_LENGTH \/ Len(data) # MIN_PACKAGE_SIZE + data_length
             THEN None
             ELSE Some(EnttecMessage(label, SubSeq(data, 5, data_length + 4)))

(***************************************************************************)
(* Codec harness: serialize then deserialize a message; deserialize a raw  *)
(* buffer.                                                                 *)
(***************************************************************************)
Payloads == SeqsUpTo(PayloadBytes, MaxPayload) \cup {Fill(n) : n \in LongLens}
Messages == {EnttecMessage(l, d) : l \in Byte, d \in Payloads}

\* Raw buffers: every short byte string, and long frames around the 600-byte limit,
\* well-formed, with a wrong end delimiter, and with one data byte missing.
LongBuffers ==
    LET frame(n, len, last) == <<START_OF_MESSAGE_DELIMITER, RECEIVED_DMX_PACKET>>
                                  \o to_le_bytes_u16(n) \o Fill(len) \o <<last>>
    IN  {frame(n, n, END_OF_MESSAGE_DELIMITER) : n \in {600, 601, 602}}
        \cup {frame(600, 600, 0), frame(600, 599, END_OF_MESSAGE_DELIMITER),
              frame(601, 600, END_OF_MESSAGE_DELIMITER)}
Buffers == SeqsUpTo(BufBytes, MaxBufLen) \cup LongBuffers

InitEnttecIdle ==
    /\ rx = <<>> /\ tx = <<>> /\ op = "none" /\ pc = "off"
    /\ receive_buffer = <<>> /\ data_size = 0 /\ result = NoResult
    /\ arg = <<>> /\ recv_package = NoResult /\ parsed = "none" /\ wrote = NoWrite
    /\ garbage = <<>> /\ frames = <<>> /\ cut = 0 /\ calls = <<>>

InitFtdiIdle ==
    /\ f_pc = "off" /\ f_op = "none" /\ latency_timer_us = 0 /\ f_timeout_us = 0
    /\ f_requested = 0 /\ actual_timeout = 0 /\ f_now = 0 /\ f_start = 0
    /\ f_head = 0 /\ f_buffer = <<>> /\ f_size = 0 /\ f_line = <<>>
    /\ f_result = NoResult
    /\ f_line0 = <<>> /\ f_bytes_read = -1 /\ f_returned_by = "none"
    /\ f_payload = <<>> /\ f_tx_queue = 0 /\ f_break = FALSE /\ f_break0 = FALSE
    /\ f_log = <<>> /\ f_written = <<>>

InitCodecIdle ==
    /\ c_pc = "off" /\ c_msg = EnttecMessage(0, <<>>) /\ c_wire = <<>> /\ c_back = None
    /\ c_again = <<>>

\* a CountDown that was never started, or was cancelled
NotRunning == [running |-> FALSE, expired |-> FALSE, us |-> 0]
NoRead == [kind |-> "none", n |-> 0, bytes |-> <<>>]

InitRp2040Idle ==
    /\ r_pc = "off" /\ r_op = "none" /\ r_timeout_us = 0 /\ r_size = 0 /\ r_buffer = <<>>
    /\ r_head = 0 /\ countdown = NotRunning /\ r_line = <<>> /\ r_line0 = <<>>
    /\ r_last = NoRead /\ r_result = NoResult /\ r_detected = 0 /\ r_sync = 0
    /\ r_payload = <<>> /\ r_tx_break = FALSE /\ r_sent = <<>> /\ r_busy = FALSE

InitCodec ==
    /\ \/ /\ c_pc = "msg"
          /\ c_msg \in Messages
          /\ c_wire = <<>>
       \/ /\ c_pc = "buf"
          /\ c_msg = EnttecMessage(0, <<>>)
          /\ c_wire \in Buffers
    /\ c_back = None /\ c_again = <<>>
    /\ InitEnttecIdle
    /\ InitFtdiIdle
    /\ InitRp2040Idle

Serialize ==
    /\ c_pc = "msg"
    /\ IF serialize_assert(c_msg)
       THEN c_wire' = serialize(c_msg) /\ c_pc' = "wire"
       ELSE c_wire' = c_wire /\ c_pc' = "panic"
    /\ UNCHANGED <<c_msg, c_back, c_again, evars, fvars, rvars>>

Deserialize ==
    /\ c_pc \in {"wire", "buf"}
    /\ c_back' = deserialize(c_wire)
    /\ c_pc' = IF c_pc = "wire" THEN "back" ELSE "parsed"
    /\ UNCHANGED <<c_msg, c_wire, c_again, evars, fvars, rvars>>

\* the message deserialize accepted, handed to serialize
Reserialize ==
    /\ c_pc = "parsed" /\ c_back.some
    /\ LET m == EnttecMessage(c_back.label, c_back.data)
       IN  IF serialize_assert(m)
           THEN c_again' = serialize(m) /\ c_pc' = "again"
           ELSE c_again' = c_again /\ c_pc' = "panic_again"
    /\ UNCHANGED <<c_msg, c_wire, c_back, evars, fvars, rvars>>

NextCodec == Serialize \/ Deserialize \/ Reserialize

SpecCodec == InitCodec /\ [][NextCodec]_vars

(***************************************************************************)
(* C1: for every label in 0..255 and payload of 0..600 bytes, serialize    *)
(* gives 0x7E, label, len_lo, len_hi, data, 0xE7 (data.length + 5 bytes)   *)
(* and deserialize of that gives back the same label and data.             *)
(***************************************************************************)
C1_RoundTrip ==
    (c_pc \in {"wire", "back"} /\ Len(c_msg.data) <= MAX_DATA_LENGTH) =>
        LET n == Len(c_msg.data)
        IN  /\ Len(c_wire) = n + 5
            /\ c_wire[1] = 126
            /\ c_wire[2] = c_msg.label
            /\ c_wire[3] \in Byte /\ c_wire[4] \in Byte
            /\ c_wire[3] + 256 * c_wire[4] = n
            /\ \A i \in 1..n : c_wire[4 + i] = c_msg.data[i]
            /\ c_wire[n + 5] = 231
            /\ c_pc = "back" =>
                  /\ c_back.some
                  /\ c_back.label = c_msg.label
                  /\ c_back.data = c_msg.data

C1_Witness ==
    /\ c_pc = "back" /\ c_back.some
    /\ Len(c_msg.data) = 600 /\ c_msg.label = 255
    /\ c_back.data = c_msg.data

(***************************************************************************)
(* C2: deserialize returns None exactly for buffers shorter than 5 bytes,  *)
(* with a wrong first or last byte, with a declared length above 600, or   *)
(* whose length is not declared length + 5; otherwise it returns the       *)
(* message carried by the buffer.                                          *)
(***************************************************************************)
Rejected(b) ==
    \/ Len(b) < 5
    \/ b[1] # 126
    \/ b[Len(b)] # 231
    \/ b[3] + 256 * b[4] > 600
    \/ Len(b) # b[3] + 256 * b[4] + 5

C2_Rejection ==
    c_pc \in {"back", "parsed"} =>
        /\ Rejected(c_wire) <=> ~c_back.some
        /\ c_back.some =>
              /\ c_back.label = c_wire[2]
              /\ c_back.data = [i \in 1..(Len(c_wire) - 5) |-> c_wire[i + 4]]

C2_Witness ==
    /\ c_pc = "parsed" /\ ~c_back.some
    /\ Len(c_wire) = 606 /\ c_wire[1] = 126 /\ c_wire[606] = 231
    /\ c_wire[3] + 256 * c_wire[4] = 601

(***************************************************************************)
(* EnttecProDriver.  The serial port is libftd2xx's Ftdi:                   *)
(*   read_all(buf)  fills buf or fails: Timeout when fewer bytes arrive     *)
(*                  within the read timeout (the bytes that did arrive are  *)
(*                  consumed), FtStatus on a device error;                  *)
(*   write_all(buf) writes buf or fails likewise;                           *)
(*   write(buf)     returns the number of bytes the device accepted.        *)
(***************************************************************************)
MaxGarbage == 2     \* bytes queued before the first frame
MaxFrames == 2      \* well-formed frames queued by the widget
MaxCut == 1         \* bytes missing at the end of the stream
MaxSlots == 3       \* slots of a short DMX payload: every sequence up to this length
MaxQueue == 3       \* SpecLive: bytes the serial port holds unread

GarbageBytes == {0, 126, 231}
SlotBytes == {0, 1, 2}
StartCodes == {0, 204}
LongSlots == {512, 599, 600}

\* u32::from_le_bytes
from_le_bytes_u32(d) == d[1] + 256 * d[2] + 65536 * d[3] + 16777216 * d[4]

\* UniqueIdentifier::new(manufacturer_uid, device_uid)
UniqueIdentifier(manufacturer_uid, device_uid) ==
    [manufacturer_uid |-> manufacturer_uid, device_uid |-> device_uid]

RECURSIVE Flatten(_)
Flatten(ms) == IF ms = <<>> THEN <<>> ELSE serialize(Head(ms)) \o Flatten(Tail(ms))

\* The messages the widget queues: received-DMX packages (label 5) with payloads of
\* 0, 1 and 2 bytes, serial-number replies (label 10) of 0, 4 and 5 bytes, and a
\* package with another label.
WidgetMessages ==
    {EnttecMessage(RECEIVED_DMX_PACKET, d) : d \in {<<>>, <<204>>, <<204, 1>>}}
    \cup {EnttecMessage(GET_WIDGET_SERIAL_NUMBER, d) :
             d \in {<<>>, <<120, 86, 52, 18>>, <<1, 2, 3, 4, 5>>}}
    \cup {EnttecMessage(SEND_RDM_PACKET_REQUEST, <<1>>)}

\* Packages at the size limit, and streams whose header declares more than the limit:
\* the start delimiter, a label, the length 601 or 65535, and bytes that follow.
LongMessages == {EnttecMessage(RECEIVED_DMX_PACKET, Fill(n)) : n \in {599, 600}}
OversizeStreams ==
    {<<START_OF_MESSAGE_DELIMITER, RECEIVED_DMX_PACKET>> \o to_le_bytes_u16(n)
         \o <<1, 2, END_OF_MESSAGE_DELIMITER>> : n \in {601, 65535}}

DmxPayloads == SeqsUpTo(SlotBytes, MaxSlots) \cup {Fill(n) : n \in LongSlots}

\* RdmData: the variant, the parameter id of a request, and the bytes RdmData::serialize
\* (dmx_rdm) yields for it.
RdmPackages ==
    {[variant |-> v, parameter_id |-> p, serialized |-> <<204, 1, 24 + (p % 7)>>] :
        v \in {"Request", "Response"}, p \in {0, 1, 2, 256, 257, 4096}}

ReceiveOps == {"read_package", "get_rdm_uid", "receive_rdm", "receive_rdm_discovery_response"}

DropLast(s, k) == SubSeq(s, 1, Len(s) - k)

InitEnttec ==
    /\ \/ /\ op \in ReceiveOps
          /\ arg = <<>>
          /\ garbage \in SeqsUpTo(GarbageBytes, MaxGarbage)
          /\ frames \in SeqsUpTo(WidgetMessages, MaxFrames)
          /\ cut \in 0..MaxCut
          /\ cut <= Len(garbage \o Flatten(frames))
          /\ rx = DropLast(garbage \o Flatten(frames), cut)
       \/ /\ op = "read_package"
          /\ arg = <<>>
          /\ \/ garbage = <<>> /\ frames \in {<<m>> : m \in LongMessages}
             \/ garbage \in OversizeStreams /\ frames = <<>>
          /\ cut \in 0..MaxCut
          /\ rx = DropLast(garbage \o Flatten(frames), cut)
       \/ /\ \/ op = "send_dmx_package" /\ arg \in {[package |-> p] : p \in DmxPayloads}
             \/ op = "send_custom_package"
                /\ arg \in {[start_code |-> c, package |-> p] : c \in StartCodes, p \in DmxPayloads}
             \/ op = "send_rdm" /\ arg \in {[package |-> p] : p \in RdmPackages}
             \/ op = "send_rdm_discovery_response" /\ arg = <<>>
          /\ garbage = <<>> /\ frames = <<>> /\ cut = 0 /\ rx = <<>>
    /\ tx = <<>> /\ pc = "idle"
    /\ receive_buffer = <<>> /\ data_size = 0 /\ result = NoResult
    /\ recv_package = NoResult /\ parsed = "none" /\ wrote = NoWrite
    /\ calls = <<>>
    /\ InitCodecIdle
    /\ InitFtdiIdle
    /\ InitRp2040Idle

Returns(r) == result' = r /\ pc' = "done"

(***************************************************************************)
(* Send path                                                               *)
(***************************************************************************)
\* serial_port.write(&message.serialize()), its byte count dropped by the caller
write_message(m) ==
    IF ~serialize_assert(m)
    THEN /\ Returns(Panic("assertion failed: self.data.len() <= MAX_DATA_LENGTH"))
         /\ UNCHANGED <<tx, wrote>>
    ELSE \E status \in {"FT_OK", "FT_IO_ERROR"} :
            IF status = "FT_OK"
            THEN \E n \in 0..Len(serialize(m)) :
                    /\ wrote' = [offered |-> Len(serialize(m)), accepted |-> n]
                    /\ tx' = tx \o SubSeq(serialize(m), 1, n)
                    /\ Returns(Ok("unit", <<>>))
            ELSE /\ Returns(Err("DriverError(FtdiError(FtStatus))"))
                 /\ UNCHANGED <<tx, wrote>>

custom_package_without_start_code(start_code, package) ==
    EnttecMessage(SEND_DMX_PACKET_REQUEST, package)

\* the message send_custom_package builds
custom_package(start_code, package) ==
    EnttecMessage(SEND_DMX_PACKET_REQUEST, <<start_code>> \o package)

send_custom_package ==
    /\ pc = "idle" /\ op = "send_custom_package"
    /\ write_message(custom_package(arg.start_code, arg.package))
    /\ UNCHANGED <<rx, op, receive_buffer, data_size, arg, recv_package, parsed,
                   garbage, frames, cut, calls, cvars, fvars, rvars>>

send_dmx_package ==
    /\ pc = "idle" /\ op = "send_dmx_package"
    /\ write_message(custom_package(DMX_NULL_START, arg.package))
    /\ UNCHANGED <<rx, op, receive_buffer, data_size, arg, recv_package, parsed,
                   garbage, frames, cut, calls, cvars, fvars, rvars>>

rdm_label_ignoring_variant(package) ==
    IF package.parameter_id = DISC_UNIQUE_BRANCH
    THEN SEND_RDM_DISCOVERY_REQUEST
    ELSE SEND_RDM_PACKET_REQUEST

\* the label send_rdm picks
rdm_label(package) ==
    IF package.variant = "Request"
    THEN IF package.parameter_id = DISC_UNIQUE_BRANCH
         THEN SEND_RDM_DISCOVERY_REQUEST
         ELSE SEND_RDM_PACKET_REQUEST
    ELSE SEND_RDM_PACKET_REQUEST

send_rdm ==
    /\ pc = "idle" /\ op = "send_rdm"
    /\ write_message(EnttecMessage(rdm_label(arg.package), arg.package.serialized))
    /\ UNCHANGED <<rx, op, receive_buffer, data_size, arg, recv_package, parsed,
                   garbage, frames, cut, calls, cvars, fvars, rvars>>

send_rdm_discovery_response ==
    /\ pc = "idle" /\ op = "send_rdm_discovery_response"
    /\ Returns(Ok("unit", <<>>))
    /\ UNCHANGED <<rx, tx, op, receive_buffer, data_size, arg, recv_package, parsed, wrote,
                   garbage, frames, cut, calls, cvars, fvars, rvars>>

(***************************************************************************)
(* Receive path                                                            *)
(***************************************************************************)
ReadVars == <<tx, op, arg, wrote, garbage, frames, cut, calls, cvars, fvars, rvars>>

\* get_rdm_uid, after its loop left with a label-10 response
uid_of(response) ==
    IF Len(response.data) # 4
    THEN Err("LengthOutOfRange")
    ELSE Ok("Uid", UniqueIdentifier(ENTTEC_MANUFACTURER_ID, from_le_bytes_u32(response.data)))

wanted_label_always_dmx(o) == RECEIVED_DMX_PACKET

\* the label each loop around read_package waits for
wanted_label(o) ==
    IF o = "get_rdm_uid" THEN GET_WIDGET_SERIAL_NUMBER ELSE RECEIVED_DMX_PACKET

\* &package.data[1..]: panics when data is empty
slice_from_1_ok(data) == 1 <= Len(data)

\* What the caller of read_package does with the value r it returned.
Deliver(r) ==
    /\ recv_package' = r
    /\ CASE op = "read_package" -> Returns(r) /\ UNCHANGED parsed
         [] op = "get_rdm_uid" ->
              IF r.tag = "Err" THEN Returns(r) /\ UNCHANGED parsed
              ELSE IF r.val.label = wanted_label(op)
              THEN Returns(uid_of(r.val)) /\ UNCHANGED parsed
              ELSE pc' = "scan" /\ UNCHANGED <<result, parsed>>
         [] op = "receive_rdm" ->
              IF r.tag = "Err" THEN Returns([r EXCEPT !.kind = "DriverError(" \o @ \o ")"])
                                    /\ UNCHANGED parsed
              ELSE IF r.val.label # wanted_label(op)
              THEN pc' = "scan" /\ UNCHANGED <<result, parsed>>
              ELSE IF ~slice_from_1_ok(r.val.data)
              THEN Returns(Panic("range start index 1 out of range for slice of length 0"))
                   /\ UNCHANGED parsed
              ELSE \E outcome \in {"Ok", "Err"} :
                      /\ parsed' = outcome
                      /\ Returns(IF outcome = "Ok"
                                 THEN Ok("RdmData", Tail(r.val.data))
                                 ELSE Err("DriverError(RdmDeserializationError)"))
         [] op = "receive_rdm_discovery_response" ->
              IF r.tag = "Err" /\ r.kind = "FtdiError(Timeout)"
              THEN Returns(Ok("NoDevice", <<>>)) /\ UNCHANGED parsed
              ELSE IF r.tag = "Err"
              THEN Returns([r EXCEPT !.kind = "DriverError(" \o @ \o ")"]) /\ UNCHANGED parsed
              ELSE IF r.val.label # wanted_label(op)
              THEN pc' = "scan" /\ UNCHANGED <<result, parsed>>
              ELSE IF ~slice_from_1_ok(r.val.data)
              THEN Returns(Panic("range start index 1 out of range for slice of length 0"))
                   /\ UNCHANGED parsed
              ELSE \E outcome \in {"Ok", "Err"} :
                      /\ parsed' = outcome
                      /\ Returns(IF outcome = "Ok"
                                 THEN Ok("Found", Tail(r.val.data))
                                 ELSE Ok("Collision", <<>>))

\* serial_port.read_all(&mut receive_buffer[from..from + n]): its possible outcomes.
\* The n bytes when they arrive; Timeout when fewer arrive (those are consumed);
\* FtStatus on a device error.
read_all(n) ==
    {[status |-> "FtStatus", bytes |-> <<>>, rest |-> rx]}
    \cup IF Len(rx) < n
         THEN {[status |-> "Timeout", bytes |-> <<>>, rest |-> <<>>]}
         ELSE {[status |-> "FT_OK", bytes |-> SubSeq(rx, 1, n),
                rest |-> SubSeq(rx, n + 1, Len(rx))]}

\* read_all(..)? failed inside read_package: the error goes to read_package's caller
read_failed(r) ==
    /\ Deliver(Err("FtdiError(" \o r.status \o ")"))
    /\ UNCHANGED <<receive_buffer, data_size>>

\* get_rdm_uid up to its loop: the label-10 request is written with write_all
get_rdm_uid_request ==
    /\ pc = "idle" /\ op = "get_rdm_uid"
    /\ LET request == serialize(EnttecMessage(GET_WIDGET_SERIAL_NUMBER, <<>>))
       IN  \E status \in {"FT_OK", "FT_IO_ERROR", "Timeout"} :
              IF status = "FT_OK"
              THEN /\ tx' = tx \o request
                   /\ wrote' = [offered |-> Len(request), accepted |-> Len(request)]
                   /\ pc' = "scan"
                   /\ UNCHANGED result
              ELSE IF status = "Timeout"
              THEN \E n \in 0..(Len(request) - 1) :
                      /\ tx' = tx \o SubSeq(request, 1, n)
                      /\ wrote' = [offered |-> Len(request), accepted |-> n]
                      /\ Returns(Err("FtdiError(Timeout)"))
              ELSE UNCHANGED <<tx, wrote>> /\ Returns(Err("FtdiError(FtStatus)"))
    /\ UNCHANGED <<rx, op, receive_buffer, data_size, arg, recv_package, parsed,
                   garbage, frames, cut, calls, cvars, fvars, rvars>>

\* receive_rdm, receive_rdm_discovery_response and read_package start reading at once
begin_receive ==
    /\ pc = "idle" /\ op \in ReceiveOps \ {"get_rdm_uid"}
    /\ pc' = "scan"
    /\ UNCHANGED <<rx, tx, op, receive_buffer, data_size, result, arg, recv_package, parsed,
                   wrote, garbage, frames, cut, calls, cvars, fvars, rvars>>

is_any_byte(b) == TRUE

\* receive_buffer[0] == START_OF_MESSAGE_DELIMITER
is_start(b) == b = START_OF_MESSAGE_DELIMITER

\* read_package, one turn of the loop that scans for the start delimiter
read_package_scan ==
    /\ pc = "scan"
    /\ \E r \in read_all(1) :
          /\ rx' = r.rest
          /\ IF r.status # "FT_OK" THEN read_failed(r)
             ELSE /\ receive_buffer' = r.bytes
                  /\ data_size' = 0
                  /\ pc' = IF is_start(r.bytes[1]) THEN "header" ELSE "scan"
                  /\ UNCHANGED <<result, recv_package, parsed>>
    /\ UNCHANGED ReadVars

size_out_of_range_off_by_one(n) == n > MAX_DATA_LENGTH + 1

\* data_size > MAX_DATA_LENGTH
size_out_of_range(n) == n > MAX_DATA_LENGTH

\* read_package, the 3 header bytes and the length check
read_package_header ==
    /\ pc = "header"
    /\ \E r \in read_all(3) :
          /\ rx' = r.rest
          /\ IF r.status # "FT_OK" THEN read_failed(r)
             ELSE /\ receive_buffer' = receive_buffer \o r.bytes
                  /\ data_size' = from_le_bytes_u16(r.bytes[2], r.bytes[3])
                  /\ IF size_out_of_range(data_size')
                     THEN Deliver(Err("LengthOutOfRange"))
                     ELSE pc' = "body" /\ UNCHANGED <<result, recv_package, parsed>>
    /\ UNCHANGED ReadVars

bulk_read_len_one_more(n) == n + 2

\* the length of receive_buffer[4..data_size + 5]
bulk_read_len(n) == n + 5 - 4

\* read_package, the data bytes and the end delimiter, then deserialize
read_package_body ==
    /\ pc = "body"
    /\ \E r \in read_all(bulk_read_len(data_size)) :
          /\ rx' = r.rest
          /\ IF r.status # "FT_OK" THEN read_failed(r)
             ELSE /\ receive_buffer' = receive_buffer \o r.bytes
                  /\ UNCHANGED data_size
                  /\ LET message == deserialize(SubSeq(receive_buffer', 1, data_size + 5))
                     IN  IF message.some
                         THEN Deliver(Ok("Message",
                                         EnttecMessage(message.label, message.data)))
                         ELSE Deliver(Err("EnttecDeserializationError"))
    /\ UNCHANGED ReadVars

SendNext ==
    \/ send_custom_package
    \/ send_dmx_package
    \/ send_rdm
    \/ send_rdm_discovery_response

ReceiveNext ==
    \/ get_rdm_uid_request
    \/ begin_receive
    \/ read_package_scan
    \/ read_package_header
    \/ read_package_body

DriverNext == SendNext \/ ReceiveNext

Spec == InitEnttec /\ [][DriverNext]_vars

(***************************************************************************)
(* The driver against a widget that is free to keep sending: it queues a   *)
(* byte whenever the port holds fewer than MaxQueue unread bytes.  The     *)
(* driver's thread keeps running (every serial-port call returns within    *)
(* the port's 50 ms timeouts), hence weak fairness of its steps; nothing   *)
(* is assumed of the widget.                                               *)
(***************************************************************************)
WidgetBytes == {0, 6, 126, 231}

InitLive ==
    /\ op \in ReceiveOps
    /\ arg = <<>> /\ garbage = <<>> /\ frames = <<>> /\ cut = 0
    /\ rx = <<>> /\ tx = <<>> /\ pc = "idle"
    /\ receive_buffer = <<>> /\ data_size = 0 /\ result = NoResult
    /\ recv_package = NoResult /\ parsed = "none" /\ wrote = NoWrite
    /\ calls = <<>>
    /\ InitCodecIdle
    /\ InitFtdiIdle
    /\ InitRp2040Idle

widget_sends ==
    /\ Len(rx) < MaxQueue
    /\ \E b \in WidgetBytes : rx' = Append(rx, b)
    /\ UNCHANGED <<tx, op, pc, receive_buffer, data_size, result, arg, recv_package, parsed,
                   wrote, garbage, frames, cut, calls, cvars, fvars, rvars>>

LiveNext == ReceiveNext \/ widget_sends

SpecLive == InitLive /\ [][LiveNext]_vars /\ WF_vars(ReceiveNext)

\* The queued stream is the garbage and then the frames, whole.
WholeStream == cut = 0
\* No device error was raised and every write was accepted whole.
PortWorked ==
    /\ wrote.accepted = wrote.offered
    /\ ~(result.tag = "Err" /\ result.kind \in {"FtdiError(FtStatus)",
                                                "DriverError(FtdiError(FtStatus))"})
NoStartIn(bytes) == \A i \in 1..Len(bytes) : bytes[i] # 126

(***************************************************************************)
(* C3: send_dmx_package(p) puts on the wire 0x7E, 6, the little-endian     *)
(* length n+1, the start code 0x00, the n bytes of p and 0xE7, nothing     *)
(* else; [0,1,2] gives 7E 06 04 00 00 00 01 02 E7.  send_custom_package     *)
(* does the same with the caller's start code.  (Payloads that pass the    *)
(* size assertion, writes the port accepted whole.)                        *)
(***************************************************************************)
C3_DmxWire ==
    (/\ pc = "done" /\ op \in {"send_dmx_package", "send_custom_package"}
     /\ result.tag = "Ok" /\ PortWorked) =>
        LET n == Len(arg.package)
            code == IF op = "send_dmx_package" THEN 0 ELSE arg.start_code
        IN  /\ Len(tx) = n + 6
            /\ tx[1] = 126
            /\ tx[2] = 6
            /\ tx[3] \in Byte /\ tx[4] \in Byte /\ tx[3] + 256 * tx[4] = n + 1
            /\ tx[5] = code
            /\ \A i \in 1..n : tx[5 + i] = arg.package[i]
            /\ tx[n + 6] = 231
            /\ (op = "send_dmx_package" /\ arg.package = <<0, 1, 2>>) =>
                   tx = <<126, 6, 4, 0, 0, 0, 1, 2, 231>>

C3_Witness ==
    /\ pc = "done" /\ op = "send_dmx_package" /\ result.tag = "Ok"
    /\ arg.package = <<0, 1, 2>>
    /\ tx = <<126, 6, 4, 0, 0, 0, 1, 2, 231>>

(***************************************************************************)
(* C4: send_rdm sends a request with parameter id 0x0001 under label 11    *)
(* and every other RDM packet under label 7, never another label.          *)
(***************************************************************************)
C4_RdmLabel ==
    (/\ pc = "done" /\ op = "send_rdm" /\ result.tag = "Ok" /\ PortWorked) =>
        /\ tx[1] = 126
        /\ tx[2] \in {7, 11}
        /\ tx[2] = 11 <=> (arg.package.variant = "Request" /\ arg.package.parameter_id = 1)
        /\ SubSeq(tx, 5, Len(tx) - 1) = arg.package.serialized

C4_Witness ==
    /\ pc = "done" /\ op = "send_rdm" /\ result.tag = "Ok" /\ PortWorked
    /\ arg.package.variant = "Request" /\ arg.package.parameter_id = 1
    /\ tx[2] = 11

(***************************************************************************)
(* C5: receive_rdm_discovery_response returns Ok(NoDevice) on a read       *)
(* timeout, Ok(Found) when the label-5 payload from offset 1 parses as a   *)
(* UID, and Ok(Collision) when it does not parse, whatever its length.     *)
(***************************************************************************)
C5_DiscoveryOutcome ==
    (pc = "done" /\ op = "receive_rdm_discovery_response") =>
        /\ (recv_package.tag = "Err" /\ recv_package.kind = "FtdiError(Timeout)") =>
               (result.tag = "Ok" /\ result.kind = "NoDevice")
        /\ (recv_package.tag = "Ok" /\ parsed = "Ok") =>
               (result.tag = "Ok" /\ result.kind = "Found")
        /\ (recv_package.tag = "Ok" /\ parsed # "Ok") =>
               (result.tag = "Ok" /\ result.kind = "Collision")

(***************************************************************************)
(* C6: get_rdm_uid drops every package whose label is not 10; the first    *)
(* label-10 package decides: a 4-byte payload gives the UID of             *)
(* manufacturer 0x454E and the little-endian serial, any other payload     *)
(* length gives LengthOutOfRange.                                          *)
(***************************************************************************)
FirstSerial(fs) ==
    LET i == CHOOSE i \in 1..Len(fs) :
                /\ fs[i].label = 10
                /\ \A j \in 1..(i - 1) : fs[j].label # 10
    IN  fs[i]

C7_ResyncAnyGarbage ==
    (/\ pc = "done" /\ op = "read_package"
     /\ WholeStream /\ PortWorked /\ Len(frames) >= 1) =>
        /\ result.tag = "Ok"
        /\ result.val = frames[1]

(***************************************************************************)
(* C7 amended: after garbage bytes none of which is 0x7E, one read_package *)
(* call returns the well-formed frame that follows them and consumes       *)
(* nothing after it.                                                       *)
(***************************************************************************)
C7_Resync ==
    (/\ pc = "done" /\ op = "read_package"
     /\ WholeStream /\ PortWorked /\ Len(frames) >= 1
     /\ NoStartIn(garbage)) =>
        /\ result.tag = "Ok"
        /\ result.val = frames[1]
        /\ rx = Flatten(Tail(frames))

C7_Witness ==
    /\ pc = "done" /\ op = "read_package" /\ result.tag = "Ok"
    /\ garbage = <<0, 231>> /\ Len(frames) = 1 /\ result.val = frames[1]

(***************************************************************************)
(* C9: get_rdm_uid, receive_rdm and receive_rdm_discovery_response always  *)
(* return Ok or Err; the only abort of the driver is serialize's size      *)
(* assertion on the send path.                                             *)
(***************************************************************************)
C9_NoAbortOnReceive ==
    pc = "done" =>
        IF op \in ReceiveOps
        THEN result.tag \in {"Ok", "Err"}
        ELSE result.tag = "panic" =>
                /\ op \in {"send_dmx_package", "send_custom_package"}
                /\ Len(arg.package) + 1 > 600

(***************************************************************************)
(* C10: every call of read_package, get_rdm_uid, receive_rdm and           *)
(* receive_rdm_discovery_response eventually returns, whatever the widget  *)
(* does.                                                                   *)
(***************************************************************************)
C10_CallsReturn == <>(pc = "done")

(***************************************************************************)
(* FtdiDriver (dmx-rdm-ftdi), read path.  The clock counts microseconds;   *)
(* a serial_port.read returns after some time with the bytes that arrived  *)
(* (none when the port's read timeout ran out first).                      *)
(***************************************************************************)
\* dmx_rdm::consts::INTER_SLOT_TIME_MILLIS, imported by the driver
INTER_SLOT_TIME_MILLIS == 2

MaxLatency == 2     \* latency_timer_us is drawn from 0..MaxLatency
MaxTimeout == 2     \* the caller's timeout_us is drawn from 0..MaxTimeout
MaxBuffer == 2      \* buffer.len() is drawn from 0..MaxBuffer
MaxLine == 3        \* bytes the line delivers: every sequence up to this length
MaxClock == 3       \* clock readings 0..MaxClock, and as many from the inter-slot time on

LineBytes == {0, 1}
\* The instants at which the clock is read.
Instants ==
    (0..MaxClock) \cup {INTER_SLOT_TIME_MILLIS * 1000 - 1}
        \cup {INTER_SLOT_TIME_MILLIS * 1000 + k : k \in 0..MaxClock}

TimeoutError == [tag |-> "Err", kind |-> "TimeoutError", val |-> <<>>]

check_timeout_without_floor(latency, requested_timeout_us) == requested_timeout_us

\* FtdiDriver::check_timeout, self.latency_timer_us passed as latency
check_timeout(latency, requested_timeout_us) ==
    IF requested_timeout_us = 0 THEN 0
    ELSE IF requested_timeout_us < latency THEN latency
    ELSE requested_timeout_us

MaxTxQueue == 1     \* ammount_in_tx_queue when write_frames is called: 0..MaxTxQueue

FtdiWriteIdle ==
    /\ f_payload = <<>> /\ f_tx_queue = 0 /\ f_break = FALSE /\ f_break0 = FALSE
    /\ f_log = <<>> /\ f_written = <<>>

FtdiReadIdle ==
    /\ f_requested = 0 /\ f_size = 0 /\ f_line0 = <<>> /\ f_line = <<>>

InitFtdi ==
    /\ f_pc = "idle"
    /\ latency_timer_us \in 0..MaxLatency
    /\ \/ /\ f_op \in {"read_frames", "read_frames_no_break"}
          /\ f_requested \in 0..MaxTimeout
          /\ f_size \in 0..MaxBuffer
          /\ f_line0 \in SeqsUpTo(LineBytes, MaxLine)
          /\ f_line = f_line0
          /\ FtdiWriteIdle
       \/ /\ f_op \in {"write_frames", "write_frames_no_break"}
          /\ f_payload \in SeqsUpTo(LineBytes, MaxLine)
          /\ f_tx_queue \in 0..MaxTxQueue
          /\ f_break0 \in BOOLEAN
          /\ f_break = f_break0
          /\ f_log = <<>> /\ f_written = <<>>
          /\ FtdiReadIdle
    /\ f_timeout_us = 0 /\ actual_timeout = 0 /\ f_now = 0 /\ f_start = 0
    /\ f_head = 0 /\ f_buffer = <<>>
    /\ f_result = NoResult /\ f_bytes_read = -1 /\ f_returned_by = "none"
    /\ InitCodecIdle
    /\ InitEnttecIdle
    /\ InitRp2040Idle

FtdiReadOnly == <<f_op, latency_timer_us, f_requested, f_size, f_line0, f_payload, f_tx_queue,
                  f_break, f_break0, f_log, f_written, cvars, evars, rvars>>

\* the first lines of read_frames_no_break(buffer, timeout_us), up to its loop
enter_read_frames_no_break(timeout_us) ==
    /\ f_timeout_us' = timeout_us
    /\ f_head' = 0
    /\ actual_timeout' = check_timeout(latency_timer_us, timeout_us)
    /\ f_start' = f_now'
    /\ f_pc' = "no_break"

\* the caller invokes read_frames(buffer, timeout_us): up to its loop
read_frames_begin ==
    /\ f_pc = "idle" /\ f_op = "read_frames"
    /\ f_start' = f_now
    /\ f_timeout_us' = f_requested
    /\ actual_timeout' = check_timeout(latency_timer_us, f_requested)
    /\ f_pc' = "wait_break"
    /\ UNCHANGED <<f_now, f_head, f_buffer, f_line, f_result, f_bytes_read, f_returned_by,
                   FtdiReadOnly>>

\* the caller invokes read_frames_no_break(buffer, timeout_us): up to its loop
read_frames_no_break_begin ==
    /\ f_pc = "idle" /\ f_op = "read_frames_no_break"
    /\ UNCHANGED f_now
    /\ enter_read_frames_no_break(f_requested)
    /\ UNCHANGED <<f_buffer, f_line, f_result, f_bytes_read, f_returned_by, FtdiReadOnly>>

any_byte_is_break(bytes_read, break_byte) == bytes_read # 0

\* read_frames: `bytes_read != 0 && break_byte[0] == 0`
is_break(bytes_read, break_byte) == bytes_read # 0 /\ break_byte = 0

idle_elapsed_at_once(now, slot_start) == TRUE

\* read_frames_no_break: `slot_start.elapsed().unwrap().as_millis() >= INTER_SLOT_TIME_MILLIS`
idle_elapsed(now, slot_start) == (now - slot_start) \div 1000 >= INTER_SLOT_TIME_MILLIS

\* read_frames: one test of the while condition and, inside the loop, one 1-byte read
read_frames_poll ==
    /\ f_pc = "wait_break"
    /\ IF ~(f_now - f_start < actual_timeout)
       THEN /\ f_result' = TimeoutError /\ f_pc' = "done"
            /\ f_returned_by' = "read_frames"
            /\ UNCHANGED <<f_timeout_us, actual_timeout, f_now, f_start, f_head, f_line,
                           f_bytes_read>>
       ELSE \E status \in {"FT_OK", "FT_IO_ERROR"}, later \in Instants, bytes_read \in 0..1 :
               /\ later >= f_now
               /\ bytes_read <= Len(f_line)
               /\ f_now' = later
               /\ IF status = "FT_IO_ERROR"
                  THEN /\ f_result' = Err("DriverError(FtStatus)") /\ f_pc' = "done"
                       /\ f_returned_by' = "read_frames"
                       /\ UNCHANGED <<f_timeout_us, actual_timeout, f_start, f_head, f_line,
                                      f_bytes_read>>
                  ELSE /\ f_line' = SubSeq(f_line, bytes_read + 1, Len(f_line))
                       /\ IF is_break(bytes_read, IF bytes_read = 0 THEN 255 ELSE f_line[1])
                          THEN /\ enter_read_frames_no_break(1)
                               /\ f_bytes_read' = -1
                               /\ UNCHANGED <<f_result, f_returned_by>>
                          ELSE /\ f_bytes_read' = bytes_read
                               /\ UNCHANGED <<f_pc, f_timeout_us, actual_timeout, f_start,
                                              f_head, f_result, f_returned_by>>
    /\ UNCHANGED <<f_buffer, FtdiReadOnly>>

\* read_frames_no_break: one test of the while condition and one turn of the loop
read_frames_no_break_step ==
    /\ f_pc = "no_break"
    /\ IF ~(f_head < f_size)
       THEN /\ f_result' = Ok("usize", f_head) /\ f_pc' = "done"
            /\ f_returned_by' = "read_frames_no_break"
            /\ UNCHANGED <<f_now, f_start, f_head, f_buffer, f_line, f_bytes_read>>
       ELSE \E status \in {"FT_OK", "FT_IO_ERROR"}, later \in Instants,
               bytes_read \in 0..(f_size - f_head) :
               /\ later >= f_now
               /\ bytes_read <= Len(f_line)
               /\ f_now' = later
               /\ IF status = "FT_IO_ERROR"
                  THEN /\ f_result' = Err("DriverError(FtStatus)") /\ f_pc' = "done"
                       /\ f_returned_by' = "read_frames_no_break"
                       /\ UNCHANGED <<f_start, f_head, f_buffer, f_line, f_bytes_read>>
                  ELSE /\ f_line' = SubSeq(f_line, bytes_read + 1, Len(f_line))
                       /\ f_buffer' = f_buffer \o SubSeq(f_line, 1, bytes_read)
                       /\ f_head' = f_head + bytes_read
                       /\ f_bytes_read' = bytes_read
                       /\ IF f_head' = 0
                          THEN IF f_now' - f_start < actual_timeout
                               THEN UNCHANGED <<f_pc, f_result, f_start, f_returned_by>>
                               ELSE /\ f_result' = TimeoutError /\ f_pc' = "done"
                                    /\ f_returned_by' = "read_frames_no_break"
                                    /\ UNCHANGED f_start
                          ELSE IF bytes_read > 0
                          THEN f_start' = f_now' /\ UNCHANGED <<f_pc, f_result, f_returned_by>>
                          ELSE IF idle_elapsed(f_now', f_start)
                          THEN /\ f_result' = Ok("usize", f_head') /\ f_pc' = "done"
                               /\ f_returned_by' = "read_frames_no_break"
                               /\ UNCHANGED f_start
                          ELSE UNCHANGED <<f_pc, f_result, f_start, f_returned_by>>
    /\ UNCHANGED <<f_timeout_us, actual_timeout, FtdiReadOnly>>

FtdiWriteOnly == <<latency_timer_us, f_timeout_us, f_requested, actual_timeout, f_now, f_start,
                   f_head, f_buffer, f_size, f_line, f_line0, f_bytes_read, f_op, f_payload,
                   f_break0, cvars, evars, rvars>>

FtStatusError == Err("DriverError(FtStatus)")

begin_package_skipping_break_off(step) ==
    CASE step = "tx_wait" -> "settle"
      [] step = "settle" -> "break_on"
      [] step = "break_on" -> "write"
      [] step = "break_off" -> "write"

\* the order of the statements of begin_package, and of the write that follows it
begin_package_then(step) ==
    CASE step = "tx_wait" -> "settle"
      [] step = "settle" -> "break_on"
      [] step = "break_on" -> "break_off"
      [] step = "break_off" -> "write"

\* a `?` on a failed serial-port call inside begin_package
begin_package_fails ==
    /\ f_result' = FtStatusError /\ f_pc' = "done" /\ f_returned_by' = "begin_package"
    /\ UNCHANGED <<f_tx_queue, f_break, f_log, f_written>>

\* the caller invokes write_frames(buffer)
write_frames_begin ==
    /\ f_pc = "idle" /\ f_op = "write_frames"
    /\ f_pc' = "tx_wait"
    /\ UNCHANGED <<f_result, f_returned_by, f_tx_queue, f_break, f_log, f_written,
                   FtdiWriteOnly>>

\* the caller invokes write_frames_no_break(buffer)
write_frames_no_break_begin ==
    /\ f_pc = "idle" /\ f_op = "write_frames_no_break"
    /\ f_pc' = "write"
    /\ UNCHANGED <<f_result, f_returned_by, f_tx_queue, f_break, f_log, f_written,
                   FtdiWriteOnly>>

\* the chip sends a queued byte
tx_queue_drains ==
    /\ f_pc = "tx_wait" /\ f_tx_queue > 0
    /\ f_tx_queue' = f_tx_queue - 1
    /\ UNCHANGED <<f_pc, f_result, f_returned_by, f_break, f_log, f_written, FtdiWriteOnly>>

\* begin_package: one turn of `while self.serial_port.status()?.ammount_in_tx_queue != 0 {}`
begin_package_status ==
    /\ f_pc = "tx_wait"
    /\ \E status \in {"FT_OK", "FT_IO_ERROR"} :
          IF status = "FT_IO_ERROR" THEN begin_package_fails
          ELSE IF f_tx_queue # 0
          THEN UNCHANGED <<f_pc, f_result, f_returned_by, f_tx_queue, f_break, f_log, f_written>>
          ELSE /\ f_pc' = begin_package_then(f_pc)
               /\ f_log' = Append(f_log, "tx_queue_empty")
               /\ UNCHANGED <<f_result, f_returned_by, f_tx_queue, f_break, f_written>>
    /\ UNCHANGED FtdiWriteOnly

\* begin_package: spin_sleep::sleep(Duration::from_millis(50))
begin_package_sleep ==
    /\ f_pc = "settle"
    /\ f_pc' = begin_package_then(f_pc)
    /\ f_log' = Append(f_log, "sleep")
    /\ UNCHANGED <<f_result, f_returned_by, f_tx_queue, f_break, f_written, FtdiWriteOnly>>

\* begin_package: self.serial_port.set_break_on()?
begin_package_set_break_on ==
    /\ f_pc = "break_on"
    /\ \E status \in {"FT_OK", "FT_IO_ERROR"} :
          IF status = "FT_IO_ERROR" THEN begin_package_fails
          ELSE /\ f_break' = TRUE
               /\ f_pc' = begin_package_then(f_pc)
               /\ f_log' = Append(f_log, "set_break_on")
               /\ UNCHANGED <<f_result, f_returned_by, f_tx_queue, f_written>>
    /\ UNCHANGED FtdiWriteOnly

\* begin_package: self.serial_port.set_break_off()?
begin_package_set_break_off ==
    /\ f_pc = "break_off"
    /\ \E status \in {"FT_OK", "FT_IO_ERROR"} :
          IF status = "FT_IO_ERROR" THEN begin_package_fails
          ELSE /\ f_break' = FALSE
               /\ f_pc' = begin_package_then(f_pc)
               /\ f_log' = Append(f_log, "set_break_off")
               /\ UNCHANGED <<f_result, f_returned_by, f_tx_queue, f_written>>
    /\ UNCHANGED FtdiWriteOnly

\* write_frames_no_break: Ok(self.serial_port.write(buffer)?)
write_frames_no_break_write ==
    /\ f_pc = "write"
    /\ \E status \in {"FT_OK", "FT_IO_ERROR"}, n \in 0..Len(f_payload) :
          IF status = "FT_IO_ERROR"
          THEN /\ f_result' = FtStatusError
               /\ UNCHANGED <<f_log, f_written>>
          ELSE /\ f_written' = SubSeq(f_payload, 1, n)
               /\ f_log' = Append(f_log, "write")
               /\ f_result' = Ok("usize", n)
    /\ f_pc' = "done" /\ f_returned_by' = "write_frames_no_break"
    /\ UNCHANGED <<f_tx_queue, f_break, FtdiWriteOnly>>

FtdiNext ==
    \/ read_frames_begin
    \/ read_frames_no_break_begin
    \/ read_frames_poll
    \/ read_frames_no_break_step
    \/ write_frames_begin
    \/ write_frames_no_break_begin
    \/ tx_queue_drains
    \/ begin_package_status
    \/ begin_package_sleep
    \/ begin_package_set_break_on
    \/ begin_package_set_break_off
    \/ write_frames_no_break_write

SpecFtdi == InitFtdi /\ [][FtdiNext]_vars

(***************************************************************************)
(* C8: a read of the FTDI driver requested with timeout t under latency    *)
(* timer L runs with the effective timeout max(t, L) when t > 0 and 0      *)
(* when t = 0, in read_frames, in read_frames_no_break, and in the         *)
(* read_frames_no_break call made by read_frames after a break (which it   *)
(* requests with t = 1): no TimeoutError is returned before that much      *)
(* time has passed.                                                        *)
(***************************************************************************)
Floored(t, L) == IF t = 0 THEN 0 ELSE IF t > L THEN t ELSE L

C8_TimeoutFloor ==
    /\ f_pc \in {"wait_break", "no_break"} =>
          /\ actual_timeout = Floored(f_timeout_us, latency_timer_us)
          /\ f_timeout_us > 0 => actual_timeout >= latency_timer_us
          /\ f_timeout_us = IF f_op = "read_frames" /\ f_pc = "no_break"
                            THEN 1 ELSE f_requested
    /\ (f_pc = "done" /\ f_result = TimeoutError) =>
          f_now - f_start >= Floored(f_timeout_us, latency_timer_us)

C8_Witness ==
    /\ f_pc = "done" /\ f_result = TimeoutError
    /\ f_op = "read_frames" /\ f_requested = 1 /\ latency_timer_us = 2
    /\ f_now - f_start = 2

\* the bytes the driver has taken from the line so far
FtdiTaken == Len(f_line0) - Len(f_line)

(***************************************************************************)
(* C12: read_frames_no_break of the FTDI driver finds the end of a frame   *)
(* without a length field.  The bytes it stores are the bytes that         *)
(* arrived, in arrival order.  It returns Ok(n) with n the number of       *)
(* bytes stored, and only when the buffer is full (n = buffer.len()) or    *)
(* when, with at least one byte stored, the last read delivered no byte    *)
(* and the inter-slot time has passed since the last byte.  It returns     *)
(* TimeoutError only with nothing stored, after a read that delivered      *)
(* nothing, once the floored timeout has passed; it never returns Ok(0)    *)
(* for a non-empty buffer.                                                 *)
(***************************************************************************)
C12_FrameEnd ==
    /\ f_pc \in {"no_break", "done"} =>
          /\ Len(f_buffer) = f_head /\ f_head <= f_size
          /\ f_buffer = SubSeq(f_line0, FtdiTaken - f_head + 1, FtdiTaken)
    /\ (f_pc = "done" /\ f_returned_by = "read_frames_no_break") =>
          /\ f_result.tag = "Ok" =>
                /\ f_result.val = f_head
                /\ \/ f_head = f_size
                   \/ /\ f_head >= 1 /\ f_bytes_read = 0
                      /\ (f_now - f_start) \div 1000 >= INTER_SLOT_TIME_MILLIS
                /\ f_result.val = 0 => f_size = 0
          /\ f_result = TimeoutError =>
                /\ f_head = 0 /\ f_bytes_read = 0
                /\ f_now - f_start >= check_timeout(latency_timer_us, f_timeout_us)
          /\ f_result.tag = "Ok" \/ f_result = TimeoutError
                \/ f_result = Err("DriverError(FtStatus)")

\* a frame shorter than the buffer, ended by the idle line
C12_Witness ==
    /\ f_pc = "done" /\ f_op = "read_frames_no_break"
    /\ f_result = Ok("usize", 1) /\ f_size = 2 /\ f_buffer = <<1>>
    /\ f_bytes_read = 0

\* position in the line of the first zero byte (0: there is none)
FirstZero(line) ==
    IF \E k \in 1..Len(line) : line[k] = 0
    THEN CHOOSE k \in 1..Len(line) : line[k] = 0 /\ \A i \in 1..(k - 1) : line[i] # 0
    ELSE 0

(***************************************************************************)
(* C13: read_frames of the FTDI driver returns Ok only after a single-byte *)
(* read delivered a zero byte.  That byte is the first zero byte of the    *)
(* line; every byte read before it is non-zero and is stored nowhere, the  *)
(* zero byte is not stored either, and the buffer holds only what          *)
(* read_frames_no_break stored: the bytes that follow the zero byte.       *)
(* When the wait loop ends on its timeout the result is TimeoutError, no   *)
(* zero byte was read, and read_frames_no_break was not started: the       *)
(* buffer is untouched.                                                    *)
(***************************************************************************)
C13_InferredBreak ==
    f_op = "read_frames" =>
       /\ f_pc = "wait_break" =>
             /\ f_buffer = <<>>
             /\ \A i \in 1..FtdiTaken : f_line0[i] # 0
       /\ (f_pc = "no_break" \/ f_returned_by = "read_frames_no_break") =>
             /\ FirstZero(f_line0) > 0
             /\ FtdiTaken - f_head = FirstZero(f_line0)
             /\ f_buffer = SubSeq(f_line0, FirstZero(f_line0) + 1, FirstZero(f_line0) + f_head)
             /\ f_timeout_us = 1
       /\ (f_pc = "done" /\ f_result.tag = "Ok") => f_returned_by = "read_frames_no_break"
       /\ (f_pc = "done" /\ f_returned_by = "read_frames") =>
             /\ f_result = TimeoutError \/ f_result = Err("DriverError(FtStatus)")
             /\ \A i \in 1..FtdiTaken : f_line0[i] # 0
             /\ f_buffer = <<>> /\ f_head = 0
             /\ f_result = TimeoutError =>
                   f_now - f_start >= check_timeout(latency_timer_us, f_requested)

\* a non-zero byte dropped, the zero byte taken as the break, the next byte returned
C13_Witness ==
    /\ f_op = "read_frames" /\ f_pc = "done"
    /\ f_line0 = <<1, 0, 1>>
    /\ f_result = Ok("usize", 1) /\ f_buffer = <<1>> /\ f_line = <<>>

\* the wait ended by the timeout after a non-zero byte was read and dropped
C13_WitnessTimeout ==
    /\ f_op = "read_frames" /\ f_pc = "done" /\ f_returned_by = "read_frames"
    /\ f_result = TimeoutError /\ FtdiTaken = 1

IsPrefix(a, b) == Len(a) <= Len(b) /\ a = SubSeq(b, 1, Len(a))

(***************************************************************************)
(* C17: write_frames of the FTDI driver does its steps in order: it sees   *)
(* the transmit queue empty, sleeps the settle interval, sets break on,    *)
(* sets break off, and only then writes the payload.  No payload byte is   *)
(* written while break is asserted, and when a call inside begin_package   *)
(* fails no payload byte is written.  write_frames_no_break only writes:   *)
(* it leaves the break line as it found it.                                *)
(***************************************************************************)
C17_WriteOrder ==
    /\ f_op = "write_frames" =>
          /\ IsPrefix(f_log, <<"tx_queue_empty", "sleep", "set_break_on", "set_break_off",
                               "write">>)
          /\ f_pc = "write" => (~f_break /\ Len(f_log) = 4)
          /\ f_written # <<>> => (~f_break /\ Len(f_log) = 5)
          /\ (f_pc = "done" /\ f_returned_by = "begin_package") =>
                (f_result = FtStatusError /\ f_written = <<>> /\ Len(f_log) < 4)
          /\ f_pc = "settle" => f_tx_queue = 0
    /\ f_op = "write_frames_no_break" =>
          /\ f_break = f_break0
          /\ IsPrefix(f_log, <<"write">>)
    /\ f_op \in {"write_frames", "write_frames_no_break"} =>
          /\ IsPrefix(f_written, f_payload)
          /\ (f_pc = "done" /\ f_result.tag = "Ok") => f_result.val = Len(f_written)

\* a whole payload written after the queue drained and break went on and off
C17_Witness ==
    /\ f_op = "write_frames" /\ f_pc = "done"
    /\ f_break0 /\ ~f_break
    /\ Len(f_payload) = 2 /\ f_written = f_payload /\ f_result = Ok("usize", 2)
    /\ f_log = <<"tx_queue_empty", "sleep", "set_break_on", "set_break_off", "write">>

(***************************************************************************)
(* Rp2040Driver (dmx-rdm-rp2040).  Time is abstract: a running countdown   *)
(* expires at some moment, and a poll of the UART finds either nothing     *)
(* (WouldBlock) or a prefix of what the line still delivers.               *)
(***************************************************************************)
MaxRpLine == 4      \* events on the receive line: every sequence up to this length
MaxRpBuffer == 2    \* buffer.len() of a read is drawn from 0..MaxRpBuffer
MaxRpTimeout == 1   \* timeout_us is drawn from 0..MaxRpTimeout
MaxRpPayload == 2   \* a written buffer holds up to this many bytes

RpBytes == {1, 2}
\* read_frames_no_break's local constant
MAXIMUM_MAB_TIME_MS == 1
\* what a caller's buffer holds before the driver writes to it
Untouched == 0

\* rp2040_hal::uart::ReadErrorType
ReadErrorType == {"Break", "Overrun", "Parity", "Framing"}
Data(b) == [t |-> "Data", b |-> b]
Fault(t) == [t |-> t, b |-> 0]
LineEvents == {Data(b) : b \in RpBytes} \cup {Fault(t) : t \in ReadErrorType}

\* self.countdown.start(us): a zero duration has expired at once
start(us) == [running |-> TRUE, expired |-> (us = 0), us |-> us]

\* the data bytes at the front of the line, up to the first fault
LeadingData(line) ==
    CHOOSE m \in 0..Len(line) :
        /\ \A i \in 1..m : line[i].t = "Data"
        /\ m = Len(line) \/ line[m + 1].t # "Data"

BytesOf(line, n) == [i \in 1..n |-> line[i].b]

\* self.uart.read_raw(slice) with slice.len() = capacity: WouldBlock when the
\* FIFO is empty, Ok(n) with the n bytes found stored in the slice, or the
\* fault met, the bytes read before it in the same call being discarded.
read_raw(capacity) ==
    LET m == LeadingData(r_line)
        fits == IF m < capacity THEN m ELSE capacity
    IN  {[kind |-> "WouldBlock", n |-> 0, bytes |-> <<>>]}
        \cup {[kind |-> "Ok", n |-> k, bytes |-> BytesOf(r_line, k)] : k \in 1..fits}
        \cup (IF m < capacity /\ m < Len(r_line)
              THEN {[kind |-> r_line[m + 1].t, n |-> m + 1, bytes |-> BytesOf(r_line, m)]}
              ELSE {})

\* read_raw writing the bytes it read into buffer[head..]
store(buffer, head, bytes) ==
    [i \in 1..Len(buffer) |->
        IF head < i /\ i <= head + Len(bytes) THEN bytes[i - head] ELSE buffer[i]]

driver_error_swapping_parity(err_type) ==
    CASE err_type = "Overrun" -> Err("DriverError(Overflow)")
      [] err_type = "Parity" -> Err("DriverError(Framing)")
      [] err_type = "Framing" -> Err("DriverError(Parity)")

\* the error arms of read_frames_no_break
driver_error(err_type) ==
    CASE err_type = "Overrun" -> Err("DriverError(Overflow)")
      [] err_type = "Parity" -> Err("DriverError(Parity)")
      [] err_type = "Framing" -> Err("DriverError(Framing)")

break_always_ends_frame(head) == TRUE

\* ReadErrorType::Break in read_frames_no_break: `if head == 0 { continue; } break;`
break_ends_frame(head) == head # 0

Consumed == Len(r_line0) - Len(r_line)

WriteIdle ==
    /\ r_payload = <<>> /\ r_tx_break = FALSE /\ r_sent = <<>> /\ r_busy = FALSE

InitRp2040Read ==
    /\ r_pc = "idle"
    /\ r_op \in {"read_frames", "read_frames_no_break"}
    /\ r_timeout_us \in 0..MaxRpTimeout
    /\ r_size \in 0..MaxRpBuffer
    /\ r_buffer = [i \in 1..r_size |-> Untouched]
    /\ r_line0 \in SeqsUpTo(LineEvents, MaxRpLine)
    /\ r_line = r_line0
    /\ r_head = 0 /\ countdown = NotRunning /\ r_last = NoRead /\ r_result = NoResult
    /\ r_detected = 0 /\ r_sync = 0
    /\ WriteIdle

ReadOnly == <<r_op, r_timeout_us, r_size, r_line0, r_payload, r_tx_break, r_sent, r_busy,
              cvars, evars, fvars>>

\* time passes: the running countdown reaches its end
countdown_expires ==
    /\ r_pc \notin {"idle", "done"}
    /\ countdown.running /\ ~countdown.expired
    /\ countdown' = [countdown EXCEPT !.expired = TRUE]
    /\ UNCHANGED <<r_pc, r_op, r_timeout_us, r_size, r_buffer, r_head, r_line, r_line0,
                   r_last, r_result, r_detected, r_sync, r_payload, r_tx_break, r_sent,
                   r_busy, cvars, evars, fvars>>

\* the first lines of read_frames_no_break(buffer, timeout_us), up to its loop
rp2040_enter_read_frames_no_break ==
    /\ r_head' = 0
    /\ countdown' = start(r_timeout_us)
    /\ r_pc' = "no_break"

\* the caller invokes read_frames(buffer, timeout_us): up to its loop
rp2040_read_frames_begin ==
    /\ r_pc = "idle" /\ r_op = "read_frames"
    /\ countdown' = start(r_timeout_us)
    /\ r_pc' = "wait_break"
    /\ UNCHANGED <<r_buffer, r_head, r_line, r_last, r_result, r_detected, r_sync, ReadOnly>>

\* the caller invokes read_frames_no_break(buffer, timeout_us): up to its loop
rp2040_read_frames_no_break_begin ==
    /\ r_pc = "idle" /\ r_op = "read_frames_no_break"
    /\ rp2040_enter_read_frames_no_break
    /\ UNCHANGED <<r_buffer, r_line, r_last, r_result, r_detected, r_sync, ReadOnly>>

\* read_frames: one turn of its loop, and what follows the loop when it breaks
rp2040_read_frames_poll ==
    /\ r_pc = "wait_break"
    /\ IF r_size = 0
       THEN \* &mut buffer[0..1] of an empty buffer
            /\ r_result' = Panic("buffer[0..1]") /\ r_pc' = "done"
            /\ UNCHANGED <<r_buffer, r_head, countdown, r_line, r_last, r_detected, r_sync>>
       ELSE \E o \in read_raw(1) :
               /\ r_last' = o
               /\ r_line' = SubSeq(r_line, o.n + 1, Len(r_line))
               /\ r_buffer' = store(r_buffer, 0, o.bytes)
               /\ CASE o.kind = "Break" ->
                         /\ r_detected' = Consumed + o.n
                         /\ r_sync' = Consumed + o.n
                         /\ rp2040_enter_read_frames_no_break
                         /\ UNCHANGED r_result
                    [] o.kind = "WouldBlock" /\ countdown.expired ->
                         /\ r_result' = TimeoutError /\ r_pc' = "done"
                         /\ countdown' = start(countdown.us)
                         /\ UNCHANGED <<r_head, r_detected, r_sync>>
                    [] OTHER ->
                         UNCHANGED <<r_pc, r_head, countdown, r_result, r_detected, r_sync>>
    /\ UNCHANGED ReadOnly

\* read_frames_no_break: one test of the while condition and one turn of the loop
rp2040_read_frames_no_break_step ==
    /\ r_pc = "no_break"
    /\ IF ~(r_head < r_size)
       THEN /\ r_result' = Ok("usize", r_head) /\ r_pc' = "done"
            /\ countdown' = NotRunning
            /\ UNCHANGED <<r_buffer, r_head, r_line, r_last, r_detected, r_sync>>
       ELSE \E o \in read_raw(r_size - r_head) :
               /\ r_last' = o
               /\ r_line' = SubSeq(r_line, o.n + 1, Len(r_line))
               /\ r_buffer' = store(r_buffer, r_head, o.bytes)
               /\ UNCHANGED r_detected
               /\ CASE o.kind = "Ok" ->
                         /\ countdown' = start(MAXIMUM_MAB_TIME_MS * 1000)
                         /\ r_head' = r_head + o.n
                         /\ UNCHANGED <<r_pc, r_result, r_sync>>
                    [] o.kind = "Break" ->
                         IF break_ends_frame(r_head)
                         THEN /\ r_result' = Ok("usize", r_head) /\ r_pc' = "done"
                              /\ countdown' = NotRunning
                              /\ UNCHANGED <<r_head, r_sync>>
                         ELSE /\ r_sync' = Consumed + o.n
                              /\ UNCHANGED <<r_pc, r_head, countdown, r_result>>
                    [] o.kind \in {"Overrun", "Parity", "Framing"} ->
                         /\ r_result' = driver_error(o.kind) /\ r_pc' = "done"
                         /\ UNCHANGED <<r_head, countdown, r_sync>>
                    [] o.kind = "WouldBlock" ->
                         IF countdown.expired
                         THEN /\ r_result' = IF r_head = 0 THEN TimeoutError
                                             ELSE Ok("usize", r_head)
                              /\ r_pc' = "done"
                              /\ countdown' = start(countdown.us)
                              /\ UNCHANGED <<r_head, r_sync>>
                         ELSE UNCHANGED <<r_pc, r_head, countdown, r_result, r_sync>>
    /\ UNCHANGED ReadOnly

\* begin_package's durations
BRK == 200
MAB == 48

InitRp2040Write ==
    /\ r_pc = "idle"
    /\ r_op \in {"write_frames", "write_frames_no_break"}
    /\ r_payload \in SeqsUpTo(RpBytes, MaxRpPayload)
    /\ r_tx_break = FALSE /\ r_sent = <<>> /\ r_busy \in BOOLEAN
    /\ r_timeout_us = 0 /\ r_size = 0 /\ r_buffer = <<>> /\ r_line0 = <<>> /\ r_line = <<>>
    /\ r_head = 0 /\ countdown = NotRunning /\ r_last = NoRead /\ r_result = NoResult
    /\ r_detected = 0 /\ r_sync = 0

InitRp2040 ==
    /\ InitRp2040Read \/ InitRp2040Write
    /\ InitCodecIdle
    /\ InitEnttecIdle
    /\ InitFtdiIdle

WriteOnly == <<r_op, r_timeout_us, r_size, r_buffer, r_head, r_line, r_line0, r_last,
               r_detected, r_sync, r_payload, cvars, evars, fvars>>

wait_never_blocks(c) == TRUE

\* self.countdown.wait() returns Ok(()) rather than Err(nb::Error::WouldBlock)
wait_is_over(c) == c.expired

\* the caller invokes write_frames(buffer): begin_package up to its first wait loop
rp2040_write_frames_begin ==
    /\ r_pc = "idle" /\ r_op = "write_frames"
    /\ r_tx_break' = TRUE
    /\ countdown' = start(BRK)
    /\ r_pc' = "brk"
    /\ UNCHANGED <<r_result, r_sent, r_busy, WriteOnly>>

\* begin_package: the BRK wait loop ends, the break is stopped, the MAB countdown started
rp2040_begin_package_break_stop ==
    /\ r_pc = "brk" /\ wait_is_over(countdown)
    /\ r_tx_break' = FALSE
    /\ countdown' = start(MAB)
    /\ r_pc' = "mab"
    /\ UNCHANGED <<r_result, r_sent, r_busy, WriteOnly>>

\* begin_package: the MAB wait loop ends; write_frames goes on to write_frames_no_break
rp2040_begin_package_mab_over ==
    /\ r_pc = "mab" /\ wait_is_over(countdown)
    /\ countdown' = start(countdown.us)
    /\ r_pc' = "write"
    /\ UNCHANGED <<r_result, r_sent, r_busy, r_tx_break, WriteOnly>>

\* the caller invokes write_frames_no_break(buffer)
rp2040_write_frames_no_break_begin ==
    /\ r_pc = "idle" /\ r_op = "write_frames_no_break"
    /\ r_pc' = "write"
    /\ UNCHANGED <<r_result, r_sent, r_busy, r_tx_break, countdown, WriteOnly>>

\* self.uart.write_full_blocking(buffer), one byte at a time
write_full_blocking ==
    /\ r_pc = "write"
    /\ IF Len(r_sent) < Len(r_payload)
       THEN /\ r_sent' = Append(r_sent, r_payload[Len(r_sent) + 1])
            /\ r_busy' = TRUE
            /\ UNCHANGED r_pc
       ELSE /\ r_pc' = "busy"
            /\ UNCHANGED <<r_sent, r_busy>>
    /\ UNCHANGED <<r_result, r_tx_break, countdown, WriteOnly>>

\* the UART finishes shifting out what it holds
uart_goes_idle ==
    /\ r_pc \in {"write", "busy"} /\ r_busy
    /\ r_busy' = FALSE
    /\ UNCHANGED <<r_pc, r_result, r_sent, r_tx_break, countdown, WriteOnly>>

\* write_frames_no_break: `while self.uart.uart_is_busy() {}` ends, Ok(buffer.len())
rp2040_write_frames_return ==
    /\ r_pc = "busy" /\ ~r_busy
    /\ r_result' = Ok("usize", Len(r_payload))
    /\ r_pc' = "done"
    /\ UNCHANGED <<r_sent, r_busy, r_tx_break, countdown, WriteOnly>>

Rp2040Next ==
    \/ countdown_expires
    \/ rp2040_read_frames_begin
    \/ rp2040_read_frames_no_break_begin
    \/ rp2040_read_frames_poll
    \/ rp2040_read_frames_no_break_step
    \/ rp2040_write_frames_begin
    \/ rp2040_begin_package_break_stop
    \/ rp2040_begin_package_mab_over
    \/ rp2040_write_frames_no_break_begin
    \/ write_full_blocking
    \/ uart_goes_idle
    \/ rp2040_write_frames_return

SpecRp2040 == InitRp2040 /\ [][Rp2040Next]_vars

(***************************************************************************)
(* C11: read_frames of the RP2040 driver honours its timeout while it     *)
(* waits for a break, whatever the line carries (nothing, data bytes,      *)
(* parity, framing or overrun faults): once the countdown started with     *)
(* timeout_us has expired without a break, its next turn of the loop does  *)
(* not keep it waiting for a break; it returns TimeoutError (or that very  *)
(* read is the break).                                                     *)
(***************************************************************************)
C11_TimeoutHonoured ==
    [][(r_pc = "wait_break" /\ r_size > 0 /\ countdown.expired) =>
          /\ r_pc' # "wait_break"
          /\ r_pc' = "done" => r_result' = TimeoutError]_vars

\* the data bytes among the events of the line after position k, in order
RECURSIVE DataAfter(_, _)
DataAfter(line, k) ==
    IF k >= Len(line) THEN <<>>
    ELSE (IF line[k + 1].t = "Data" THEN <<line[k + 1].b>> ELSE <<>>) \o DataAfter(line, k + 1)

Returned == SubSeq(r_buffer, 1, r_result.val)

\* read_frames returned Ok(n)
ReadFramesOk == r_op = "read_frames" /\ r_pc = "done" /\ r_result.tag = "Ok"

(***************************************************************************)
(* C14: when read_frames of the RP2040 driver succeeds with Ok(n),         *)
(* buffer[0..n] holds exactly the first n bytes received after the break   *)
(* it detected, in order, and so no byte received before that break.       *)
(***************************************************************************)
C14_FirstBytesAfterBreak ==
    ReadFramesOk =>
       /\ r_result.val <= Len(DataAfter(r_line0, r_detected))
       /\ Returned = SubSeq(DataAfter(r_line0, r_detected), 1, r_result.val)

\* this step is a turn of read_frames_no_break's loop whose read_raw returned kind
NoBreakRead(kind) == r_pc = "no_break" /\ r_head < r_size /\ r_last'.kind = kind

(***************************************************************************)
(* C15: read_frames_no_break of the RP2040 driver treats an in-band break  *)
(* by the number of bytes it has collected.  With zero bytes collected     *)
(* the break is ignored: the call stays in its loop with no result and     *)
(* head still 0.  With at least one byte collected the break ends the      *)
(* frame with Ok(head), the collected bytes unchanged, which is the        *)
(* result the expired countdown gives for the same head.                   *)
(***************************************************************************)
C15_InBandBreak ==
    [][/\ (NoBreakRead("Break") /\ r_line' # r_line) =>
             IF r_head = 0
             THEN r_pc' = "no_break" /\ r_result' = NoResult /\ r_head' = 0
             ELSE /\ r_pc' = "done" /\ r_result' = Ok("usize", r_head)
                  /\ SubSeq(r_buffer', 1, r_head) = SubSeq(r_buffer, 1, r_head)
       /\ (NoBreakRead("WouldBlock") /\ r_pc' = "done" /\ r_head > 0) =>
             /\ r_result' = Ok("usize", r_head)
             /\ SubSeq(r_buffer', 1, r_head) = SubSeq(r_buffer, 1, r_head)]_vars

\* a break ignored with nothing collected, one byte, and a break that ends the frame
C15_Witness ==
    /\ r_op = "read_frames_no_break" /\ r_pc = "done"
    /\ r_line0 = <<Fault("Break"), Data(1), Fault("Break")>> /\ r_line = <<>>
    /\ r_sync = 1 /\ r_last.kind = "Break"
    /\ r_result = Ok("usize", 1) /\ r_buffer[1] = 1

(***************************************************************************)
(* C16: read_frames_no_break of the RP2040 driver surfaces each line       *)
(* fault as its own error, at whatever head it occurs: an overrun returns  *)
(* DriverError(Overflow), a parity error DriverError(Parity), a framing    *)
(* error DriverError(Framing); none of them returns a byte count or a      *)
(* timeout.  TimeoutError is returned only when a poll finds nothing, the  *)
(* countdown has expired and zero bytes are collected.                     *)
(***************************************************************************)
C16_FaultsDistinct ==
    [][/\ NoBreakRead("Overrun") =>
             r_pc' = "done" /\ r_result' = Err("DriverError(Overflow)")
       /\ NoBreakRead("Parity") =>
             r_pc' = "done" /\ r_result' = Err("DriverError(Parity)")
       /\ NoBreakRead("Framing") =>
             r_pc' = "done" /\ r_result' = Err("DriverError(Framing)")
       /\ (r_pc = "no_break" /\ r_pc' = "done" /\ r_result' = TimeoutError) =>
             /\ r_head < r_size /\ r_last'.kind = "WouldBlock"
             /\ countdown.expired /\ r_head = 0]_vars

\* a parity error after one byte was collected
C16_Witness ==
    /\ r_pc = "done" /\ r_op = "read_frames_no_break"
    /\ r_head = 1 /\ r_last.kind = "Parity"
    /\ r_result = Err("DriverError(Parity)")

(***************************************************************************)
(* C18: write_frames of the RP2040 driver orders break, MAB and data.      *)
(* The break is asserted first; it is released only when the BRK           *)
(* countdown has expired, and a separate MAB countdown is started at the   *)
(* release; the first payload byte is written only after that countdown    *)
(* has expired, with the break released; Ok(buffer.len()) is returned      *)
(* only when the UART is no longer busy and the whole payload was handed   *)
(* to it; the break is not asserted when write_frames returns.             *)
(***************************************************************************)
C18_BreakMabData ==
    [][r_op = "write_frames" =>
          /\ (r_pc = "idle" /\ r_pc' # "idle") =>
                (r_pc' = "brk" /\ r_tx_break' /\ countdown' = start(BRK) /\ r_sent' = <<>>)
          /\ (r_tx_break /\ ~r_tx_break') =>
                /\ r_pc = "brk" /\ countdown.us = BRK /\ countdown.expired
                /\ r_pc' = "mab" /\ countdown' = start(MAB) /\ ~countdown'.expired
          /\ (r_pc # "write" /\ r_pc' = "write") =>
                (r_pc = "mab" /\ countdown.us = MAB /\ countdown.expired)
          /\ r_sent' # r_sent => (r_pc = "write" /\ ~r_tx_break /\ ~r_tx_break')
          /\ r_tx_break' => r_pc' = "brk"
          /\ (r_pc # "done" /\ r_pc' = "done") =>
                /\ ~r_busy /\ r_sent = r_payload /\ ~r_tx_break'
                /\ r_result' = Ok("usize", Len(r_payload))]_vars

\* a two-byte frame sent after break and MAB
C18_Witness ==
    /\ r_op = "write_frames" /\ r_pc = "done"
    /\ r_sent = <<1, 2>> /\ r_result = Ok("usize", 2)
    /\ ~r_tx_break /\ ~r_busy /\ countdown.us = MAB

\* `let mut receive_buffer = [0u8; 605]`
RECEIVE_BUFFER_LEN == 605

\* the bytes the widget queued for this call
Queued == DropLast(garbage \o Flatten(frames), cut)

(***************************************************************************)
(* C19: read_package does not read past a bad length.  When the 3-byte     *)
(* header read after a start delimiter declares more than 600 data bytes   *)
(* the call fails with LengthOutOfRange and the bulk read is not made:     *)
(* the header is the last thing taken from the port and every byte after   *)
(* it is still queued.  For a declared length up to 600 the bulk read      *)
(* ends at index data_size + 5 <= 605, inside receive_buffer.              *)
(***************************************************************************)
C19_NoOverRead ==
    op \in ReceiveOps =>
       /\ Len(receive_buffer) <= RECEIVE_BUFFER_LEN
       /\ pc = "body" =>
             /\ data_size <= MAX_DATA_LENGTH
             /\ data_size + 5 <= RECEIVE_BUFFER_LEN
             /\ Len(receive_buffer) = 4
       /\ recv_package = Err("LengthOutOfRange") =>
             /\ data_size > MAX_DATA_LENGTH
             /\ Len(receive_buffer) = 4
             /\ \E k \in 0..(Len(Queued) - 4) :
                   /\ receive_buffer = SubSeq(Queued, k + 1, k + 4)
                   /\ rx = SubSeq(Queued, k + 5, Len(Queued))

\* a header declaring 601 bytes: rejected with the three bytes after it still queued
C19_Witness ==
    /\ op = "read_package" /\ pc = "done" /\ result = Err("LengthOutOfRange")
    /\ data_size = 601 /\ cut = 0
    /\ rx = <<1, 2, END_OF_MESSAGE_DELIMITER>>

\* a package of exactly 600 data bytes fills the receive buffer to its end
C19_WitnessFull ==
    /\ op = "read_package" /\ pc = "done" /\ result.tag = "Ok"
    /\ data_size = MAX_DATA_LENGTH /\ Len(receive_buffer) = RECEIVE_BUFFER_LEN

\* the first queued message with the label, when there is one
RECURSIVE FirstWithLabel(_, _)
FirstWithLabel(ms, label) ==
    IF ms = <<>> THEN None
    ELSE IF Head(ms).label = label THEN Some(Head(ms))
    ELSE FirstWithLabel(Tail(ms), label)

(***************************************************************************)
(* C20: receive_rdm reads packages until one with label 5 arrives,         *)
(* dropping the others.  It then parses as RDM the payload from offset 1   *)
(* on and returns the parsed packet or RdmDeserializationError; a          *)
(* read_package error met on the way is what the caller gets.  It has no   *)
(* other outcome.                                                          *)
(***************************************************************************)
C20_ReceiveRdm ==
    (op = "receive_rdm" /\ pc = "done") =>
       /\ result.tag \in {"Ok", "Err"}
       /\ recv_package.tag = "Err" =>
             result = Err("DriverError(" \o recv_package.kind \o ")")
       /\ recv_package.tag = "Ok" =>
             /\ recv_package.val.label = RECEIVED_DMX_PACKET
             /\ (garbage = <<>> /\ cut = 0) =>
                   Some(recv_package.val) = FirstWithLabel(frames, RECEIVED_DMX_PACKET)
             /\ parsed \in {"Ok", "Err"}
             /\ parsed = "Ok" =>
                   result = Ok("RdmData", SubSeq(recv_package.val.data, 2,
                                                 Len(recv_package.val.data)))
             /\ parsed = "Err" => result = Err("DriverError(RdmDeserializationError)")

(***************************************************************************)
(* read_package called again and again on one stream of frames that the    *)
(* widget queued back to back.                                             *)
(***************************************************************************)
MaxStream == 3      \* the stream holds up to this many frames, every sequence of them

\* Frames whose label or data hold the delimiter values, and other labels than 5.
StreamMessages ==
    {EnttecMessage(label, d) :
        label \in {RECEIVED_DMX_PACKET, START_OF_MESSAGE_DELIMITER, END_OF_MESSAGE_DELIMITER},
        d \in {<<>>, <<START_OF_MESSAGE_DELIMITER>>,
               <<END_OF_MESSAGE_DELIMITER, START_OF_MESSAGE_DELIMITER>>}}

InitStream ==
    /\ op = "read_package" /\ arg = <<>>
    /\ garbage = <<>> /\ cut = 0
    /\ frames \in SeqsUpTo(StreamMessages, MaxStream) \cup {<<m, m>> : m \in LongMessages}
    /\ frames # <<>>
    /\ rx = Flatten(frames)
    /\ tx = <<>> /\ pc = "idle"
    /\ receive_buffer = <<>> /\ data_size = 0 /\ result = NoResult
    /\ recv_package = NoResult /\ parsed = "none" /\ wrote = NoWrite
    /\ calls = <<>>
    /\ InitCodecIdle
    /\ InitFtdiIdle
    /\ InitRp2040Idle

\* the caller keeps the package it got and calls read_package once more
read_package_again ==
    /\ op = "read_package" /\ pc = "done"
    /\ Len(calls) + 1 < Len(frames)
    /\ calls' = Append(calls, result)
    /\ result' = NoResult /\ recv_package' = NoResult
    /\ receive_buffer' = <<>> /\ data_size' = 0
    /\ pc' = "scan"
    /\ UNCHANGED <<rx, tx, op, arg, parsed, wrote, garbage, frames, cut, cvars, fvars, rvars>>

StreamNext ==
    \/ begin_receive
    \/ read_package_scan
    \/ read_package_header
    \/ read_package_body
    \/ read_package_again

SpecStream == InitStream /\ [][StreamNext]_vars

\* what the calls made so far returned, the one that just returned included
Results == calls \o (IF pc = "done" THEN <<result>> ELSE <<>>)

NoDeviceError == \A i \in 1..Len(Results) : Results[i] # Err("FtdiError(FtStatus)")

(***************************************************************************)
(* C21: read_package consumes exactly the bytes of the frame it returns.   *)
(* On k well-formed frames queued back to back, as long as the port        *)
(* raises no device error, the i-th call returns the i-th frame, and when  *)
(* it returns the port holds exactly the frames after it: none is lost,    *)
(* repeated or merged, and no byte of a later frame has been taken.        *)
(***************************************************************************)
C21_FramesInOrder ==
    NoDeviceError =>
       /\ Len(Results) <= Len(frames)
       /\ \A i \in 1..Len(Results) : Results[i] = Ok("Message", frames[i])
       /\ pc \in {"idle", "done"} =>
             rx = Flatten(SubSeq(frames, Len(Results) + 1, Len(frames)))
       /\ pc \in {"scan", "header", "body"} =>
             receive_buffer \o rx = Flatten(SubSeq(frames, Len(Results) + 1, Len(frames)))

\* three calls on three frames, the second being 7E 7E 02 00 E7 7E E7
C21_Witness ==
    /\ pc = "done" /\ Len(frames) = 3 /\ Len(Results) = 3 /\ rx = <<>>
    /\ frames[2] = EnttecMessage(START_OF_MESSAGE_DELIMITER,
                                 <<END_OF_MESSAGE_DELIMITER, START_OF_MESSAGE_DELIMITER>>)
    /\ frames[1] # frames[3]
    /\ Results[3] = Ok("Message", frames[3])

(***************************************************************************)
(* C22: deserialize is injective on what it accepts.  For every buffer b   *)
(* that deserialize turns into a message m, serialize(m) passes its size   *)
(* assertion and gives back exactly b.                                     *)
(***************************************************************************)
C22_Canonical ==
    /\ c_pc # "panic_again"
    /\ (c_pc = "parsed" /\ c_back.some) =>
          Len(c_back.data) <= MAX_DATA_LENGTH
    /\ c_pc = "again" => c_again = c_wire

\* an accepted buffer declaring 600 data bytes, serialized again
C22_Witness ==
    /\ c_pc = "again" /\ c_again = c_wire
    /\ Len(c_wire) = 605 /\ c_wire[3] + 256 * c_wire[4] = 600

\* a short accepted buffer, serialized again
C22_WitnessShort ==
    /\ c_pc = "again" /\ c_again = <<126, 1, 1, 0, 231, 231>>

====
